---- MODULE Spec2Model ----
(***************************************************************************)
(* Dummy Bank API (main.py, db.py): the CustomerOID validator, the         *)
(* portfolio aggregator and the customer registration / deletion handlers  *)
(* over the seven SQLModel tables.                                         *)
(*                                                                         *)
(* A Python str is a sequence of one-character strings, so that len(),     *)
(* str.replace, str.strip, int(..., 16) and re.match are computed the way  *)
(* the interpreter computes them.  Float columns (balance, amount) are     *)
(* integers.  Columns no handler ever reads (asset_type, symbol, date,     *)
(* currency, iban, strike_price, ...) travel through .dict() untouched and *)
(* are not part of a row here, and neither is the surrogate primary key id *)
(* of the customer-owned tables: a row is known by its position in its     *)
(* table, which is its rowid order.  Institution.id is kept, because       *)
(* BankAccount.institution_id refers to it.                                *)
(*                                                                         *)
(* In the first three specifications every session.exec, commit and       *)
(* refresh succeeds, a handler is one step and requests are served one at  *)
(* a time; in the last two the writing handlers run statement by           *)
(* statement in two workers, and any store call may raise.                 *)
(*                                                                         *)
(*   SpecValidator     validate_customer_oid applied to one identifier     *)
(*   Spec              all five handlers over a store that starts empty    *)
(*   SpecPortfolio     get_user_portfolio over the stores of two customers *)
(*   SpecSessions      register_customer and delete_customer interleaved,  *)
(*                     with store failures                                 *)
(*   SpecSessionsFair  the same, every worker finishing what it started    *)
(***************************************************************************)
EXTENDS Integers, Sequences, FiniteSets, TLC

VARIABLES users, assets, transactions, spending, bank_accounts,
          institutions, derivative_transactions, req, resp

tables == <<users, assets, transactions, spending, bank_accounts,
            institutions, derivative_transactions>>
vars == <<users, assets, transactions, spending, bank_accounts,
          institutions, derivative_transactions, req, resp>>

-----------------------------------------------------------------------------
(* Characters and strings *)

HexLower == {"a", "b", "c", "d", "e", "f"}
HexUpper == {"A", "B", "C", "D", "E", "F"}
Digits == {"0", "1", "2", "3", "4", "5", "6", "7", "8", "9"}
UpperLetters == {"A", "B", "C", "D", "E", "F", "G", "H", "I", "J", "K", "L", "M",
                 "N", "O", "P", "Q", "R", "S", "T", "U", "V", "W", "X", "Y", "Z"}
HexDigits == HexLower \cup HexUpper \cup Digits
Whitespace == {" ", "\n", "\t"}

Rep(c, n) == [i \in 1..n |-> c]

\* str.replace(pat, ''): every non-overlapping occurrence, left to right
RECURSIVE RemoveAll(_, _)
RemoveAll(s, pat) ==
    IF Len(s) < Len(pat) THEN s
    ELSE IF SubSeq(s, 1, Len(pat)) = pat
         THEN RemoveAll(SubSeq(s, Len(pat) + 1, Len(s)), pat)
         ELSE <<Head(s)>> \o RemoveAll(Tail(s), pat)

RECURSIVE LStrip(_, _)
LStrip(s, cs) == IF s # <<>> /\ Head(s) \in cs THEN LStrip(Tail(s), cs) ELSE s

RECURSIVE RStrip(_, _)
RStrip(s, cs) ==
    IF s # <<>> /\ s[Len(s)] \in cs THEN RStrip(SubSeq(s, 1, Len(s) - 1), cs) ELSE s

\* str.strip(chars) and str.strip()
StripChars(s, cs) == RStrip(LStrip(s, cs), cs)

-----------------------------------------------------------------------------
(* uuid.UUID(hex) as called at main.py:42 *)

UuidHexLen == 32
MinOidLen == 8
MaxOidLen == 36

\* The digit part of an int literal: digits with single underscores between
\* them; one underscore may follow a base prefix.
DigitsOk(d, afterPrefix) ==
    /\ d # <<>>
    /\ \A i \in 1..Len(d) : d[i] \in HexDigits \cup {"_"}
    /\ d[Len(d)] # "_"
    /\ (d[1] = "_" => afterPrefix)
    /\ \A i \in 1..(Len(d) - 1) : ~(d[i] = "_" /\ d[i + 1] = "_")

\* int(s, 16) does not raise ValueError.  A '-' sign cannot reach this point:
\* uuid.UUID removes every hyphen first.
IntBase16Parses(s) ==
    LET t == StripChars(s, Whitespace)
        u == IF t # <<>> /\ Head(t) = "+" THEN Tail(t) ELSE t
        pre == Len(u) >= 2 /\ u[1] = "0" /\ u[2] \in {"x", "X"}
    IN  \/ DigitsOk(u, FALSE)
        \/ pre /\ DigitsOk(SubSeq(u, 3, Len(u)), TRUE)

UUIDParses(s) ==
    LET h1 == RemoveAll(RemoveAll(s, <<"u", "r", "n", ":">>), <<"u", "u", "i", "d", ":">>)
        h2 == RemoveAll(StripChars(h1, {"{", "}"}), <<"-">>)
    IN  Len(h2) = UuidHexLen /\ IntBase16Parses(h2)

\* re.match(r'^[A-Z0-9-]{8,36}$', s); '$' also matches before a final newline
RegexMatch(s) ==
    LET body == IF s # <<>> /\ s[Len(s)] = "\n" THEN SubSeq(s, 1, Len(s) - 1) ELSE s
        InClass(t) == /\ Len(t) >= MinOidLen
                      /\ Len(t) <= MaxOidLen
                      /\ \A i \in 1..Len(t) : t[i] \in UpperLetters \cup Digits \cup {"-"}
    IN  InClass(s) \/ InClass(body)

Accept(s) == [ok |-> TRUE, value |-> s, status |-> 200, detail |-> "accepted"]
Reject(d) == [ok |-> FALSE, value |-> <<>>, status |-> 400, detail |-> d]

\* str(uuid.UUID(s)) would be the lowercase canonical form; for a string in
\* canonical grouping that is the string with its hex digits lowercased.
ToLower(c) ==
    CASE c = "A" -> "a" [] c = "B" -> "b" [] c = "C" -> "c"
      [] c = "D" -> "d" [] c = "E" -> "e" [] c = "F" -> "f"
      [] OTHER -> c

\* Variant, not the code: the validator hands back the normalised identifier.
validate_customer_oid_normalising(customer_oid) ==
    IF customer_oid = <<>> THEN Reject("CustomerOID cannot be empty")
    ELSE IF UUIDParses(customer_oid)
         THEN Accept([i \in 1..Len(customer_oid) |-> ToLower(customer_oid[i])])
         ELSE IF ~RegexMatch(customer_oid)
              THEN Reject("Invalid CustomerOID format")
              ELSE Accept(customer_oid)

validate_customer_oid(customer_oid) ==
    IF customer_oid = <<>> THEN Reject("CustomerOID cannot be empty")
    ELSE IF UUIDParses(customer_oid) THEN Accept(customer_oid)
         ELSE IF ~RegexMatch(customer_oid)
              THEN Reject("Invalid CustomerOID format")
              ELSE Accept(customer_oid)

-----------------------------------------------------------------------------
(* Requests and responses *)

NoReq == [op |-> "none", has_oid |-> FALSE, customer_oid |-> <<>>, name |-> <<>>]
NoResp == [status |-> 0, queries |-> 0, body |-> <<>>]

Request(op, has_oid, customer_oid, name) ==
    [op |-> op, has_oid |-> has_oid, customer_oid |-> customer_oid, name |-> name]

\* HTTPException(status_code, detail) / a 200 body, after `queries` session.exec calls
Response(status, queries, body) == [status |-> status, queries |-> queries, body |-> body]

-----------------------------------------------------------------------------
(* Identifier inputs *)

Canon(c1, c2) ==
    Rep(c1, 8) \o <<"-">> \o Rep(c2, 4) \o <<"-">> \o Rep(c1, 4) \o <<"-">>
        \o Rep(c2, 4) \o <<"-">> \o Rep(c1, 12)

\* "550e8400-e29b-41d4-a716-446655440001", the first seeded customer
SampleOid ==
    <<"5", "5", "0", "e", "8", "4", "0", "0", "-", "e", "2", "9", "b", "-",
      "4", "1", "d", "4", "-", "a", "7", "1", "6", "-",
      "4", "4", "6", "6", "5", "5", "4", "4", "0", "0", "0", "1">>

CanonFill == {"a", "F", "0"}
CanonBases == {Canon(c, d) : c \in CanonFill, d \in CanonFill} \cup {SampleOid}
EditBases == {Canon("a", "a"), Canon("F", "F"), Canon("0", "a"), Canon("a", "F")}
EditChars == {"a", "F", "5", "G", "g", "Z", "-", "_", " ", "+", "x", "{", "}", "\n", ":"}

ReplaceAt(s, p, c) == [i \in 1..Len(s) |-> IF i = p THEN c ELSE s[i]]
DeleteAt(s, p) == SubSeq(s, 1, p - 1) \o SubSeq(s, p + 1, Len(s))
InsertAt(s, p, c) == SubSeq(s, 1, p - 1) \o <<c>> \o SubSeq(s, p, Len(s))
NoHyphens(s) == RemoveAll(s, <<"-">>)

EditedOids ==
    {ReplaceAt(s, p, c) : s \in EditBases, p \in 1..MaxOidLen, c \in EditChars}
        \cup {DeleteAt(s, p) : s \in EditBases, p \in 1..MaxOidLen}
        \cup {InsertAt(s, p, c) : s \in EditBases, p \in 1..(MaxOidLen + 1), c \in EditChars}

WrappedOids ==
    UNION {{NoHyphens(s),
            <<"{">> \o s \o <<"}">>,
            <<"u", "r", "n", ":">> \o s,
            <<"u", "r", "n", ":", "u", "u", "i", "d", ":">> \o s,
            <<"0", "x">> \o SubSeq(NoHyphens(s), 3, UuidHexLen)} : s \in CanonBases}

LegacyLens == {0, 1, MinOidLen - 1, MinOidLen, MinOidLen + 1, UuidHexLen - 1, UuidHexLen,
               UuidHexLen + 1, MaxOidLen - 1, MaxOidLen, MaxOidLen + 1}
LegacyFill == {"A", "Z", "7", "-", "a", "g"}
LegacyOids ==
    {Rep(c, n) : c \in LegacyFill, n \in LegacyLens}
        \cup {ReplaceAt(Rep(c, n), p, d) :
                c \in LegacyFill, n \in LegacyLens \ {0}, p \in {1, 2}, d \in EditChars}
        \cup {Rep(c, n) \o <<d>> : c \in LegacyFill, n \in LegacyLens, d \in EditChars}

OidInputs == CanonBases \cup EditedOids \cup WrappedOids \cup LegacyOids

-----------------------------------------------------------------------------
(* The store: one sequence of rows per table, in insertion (rowid) order *)

MaxUsers == 2
MaxRows == 2
MaxPortfolioRows == 3
MaxInstitutions == 1

Range(t) == {t[i] : i \in 1..Len(t)}

\* INTEGER PRIMARY KEY without AUTOINCREMENT: the largest rowid in the table + 1
NextId(t) ==
    IF t = <<>> THEN 1
    ELSE (CHOOSE m \in {r.id : r \in Range(t)} : \A r \in Range(t) : r.id <= m) + 1

User(customer_oid, name) == [customer_oid |-> customer_oid, name |-> name]
Asset(customer_oid) == [customer_oid |-> customer_oid]
Transaction(customer_oid) == [customer_oid |-> customer_oid]
Spending(customer_oid, category, amount) ==
    [customer_oid |-> customer_oid, category |-> category, amount |-> amount]
Institution(id, name) == [id |-> id, name |-> name]
BankAccount(customer_oid, institution_id, balance) ==
    [customer_oid |-> customer_oid, institution_id |-> institution_id, balance |-> balance]
DerivativeTransaction(customer_oid) == [customer_oid |-> customer_oid]

\* select(T).where(T.customer_oid == customer_oid) ... .all()
WhereOid(t, customer_oid) ==
    LET Match(r) == r.customer_oid = customer_oid IN SelectSeq(t, Match)

\* Variant, not the code: the where clause is left out of the select.
SelectAllRows(t, customer_oid) == t

SelectByOid(t, customer_oid) == WhereOid(t, customer_oid)

\* ... .first(): the first matching row, or None (here the empty sequence)
FirstByOid(t, customer_oid) ==
    LET rows == WhereOid(t, customer_oid)
    IN  IF rows = <<>> THEN <<>> ELSE <<rows[1]>>

\* Variant, not the code: the dependent rows are left in their tables.
KeepRows(t, customer_oid) == t

\* Variant, not the code: the where clause is left out of the delete.
DeleteAllRows(t, customer_oid) == <<>>

\* the table once every row selected by customer_oid is deleted
DeleteByOid(t, customer_oid) ==
    LET Keep(r) == r.customer_oid # customer_oid IN SelectSeq(t, Keep)

\* the table once session.delete(user) is committed for the row .first() gave
DeleteFirstByOid(t, customer_oid) ==
    IF \A i \in 1..Len(t) : t[i].customer_oid # customer_oid THEN t
    ELSE LET k == CHOOSE i \in 1..Len(t) :
                      /\ t[i].customer_oid = customer_oid
                      /\ \A j \in 1..(i - 1) : t[j].customer_oid # customer_oid
         IN  SubSeq(t, 1, k - 1) \o SubSeq(t, k + 1, Len(t))

RECURSIVE SumSeq(_)
SumSeq(xs) == IF xs = <<>> THEN 0 ELSE Head(xs) + SumSeq(Tail(xs))

-----------------------------------------------------------------------------
(* Inputs of the requests and of the seed loader *)

\* "CUST001" of run_server.py and test_validation.py
Cust001 == <<"C", "U", "S", "T", "0", "0", "1">>

\* Values uuid.uuid4() may return: 122 random bits, so any version-4 UUID on
\* any call.  A client may also supply either of them (test_registration.py:36).
OtherOid ==
    Rep("b", 8) \o <<"-">> \o Rep("b", 4) \o <<"-", "4">> \o Rep("b", 3)
        \o <<"-", "9">> \o Rep("b", 3) \o <<"-">> \o Rep("b", 12)

Uuid4Pool == {SampleOid, OtherOid}

\* customer_oid of a request body; a path parameter is never empty
ReqOids == {Cust001, <<>>} \cup Uuid4Pool
PathOids == ReqOids \ {<<>>}

ReqNames == {<<>>, <<" ", "A", " ">>, <<"A", "l">>, <<" ", "B", "o", " ">>}

\* column values of the seeded rows
Categories == {"food", "rent"}
Amounts == {50, 100}
Balances == {100, 250}
InstitutionIds == {1, 2}
InstitutionNames == {"Global Bank"}

-----------------------------------------------------------------------------
(* The validator on its own: one call of validate_customer_oid per input *)

EmptyStore ==
    /\ users = <<>>
    /\ assets = <<>>
    /\ transactions = <<>>
    /\ spending = <<>>
    /\ bank_accounts = <<>>
    /\ institutions = <<>>
    /\ derivative_transactions = <<>>

InitValidator ==
    /\ EmptyStore
    /\ req \in {Request("validate", TRUE, s, <<>>) : s \in OidInputs}
    /\ resp = NoResp

Validate ==
    /\ req.op = "validate"
    /\ resp = NoResp
    /\ LET r == validate_customer_oid(req.customer_oid)
       IN  resp' = Response(r.status, 0, r.value)
    /\ UNCHANGED <<tables, req>>

NextValidator == Validate

SpecValidator == InitValidator /\ [][NextValidator]_vars

-----------------------------------------------------------------------------
(* One request at a time: get_db_session opens a session for the request   *)
(* and closes it when the handler has returned or raised.                  *)

Idle == req = NoReq /\ resp = NoResp

\* finally: session.close()
get_db_session_close ==
    /\ req # NoReq
    /\ req.op # "validate"
    /\ req' = NoReq
    /\ resp' = NoResp
    /\ UNCHANGED tables

-----------------------------------------------------------------------------
(* GET /user-portfolio/{customer_oid} *)

Null == [null |-> TRUE]

\* {inst.id: inst for inst in inst_results}, fetched only when institution_ids
\* is not empty
InstitutionMap(bank_accounts_of) ==
    LET institution_ids == {acc.institution_id : acc \in Range(bank_accounts_of)}
        InIds(inst) == inst.id \in institution_ids
        inst_results == IF institution_ids # {} THEN SelectSeq(institutions, InIds) ELSE <<>>
    IN  [i \in {inst.id : inst \in Range(inst_results)} |->
            CHOOSE inst \in Range(inst_results) : inst.id = i]

AccountDict(account, institution) ==
    [customer_oid |-> account.customer_oid,
     institution_id |-> account.institution_id, balance |-> account.balance,
     institution |-> institution]

\* Variant, not the code: an inner join, which loses the accounts whose institution is missing.
AccountsInnerJoin(bank_accounts_of, inst_map) ==
    LET Resolves(account) == account.institution_id \in DOMAIN inst_map
        kept == SelectSeq(bank_accounts_of, Resolves)
    IN  [i \in 1..Len(kept) |-> AccountDict(kept[i], inst_map[kept[i].institution_id])]

\* the "bank_accounts" list of the response
AccountsWithInstitution(bank_accounts_of, inst_map) ==
    [i \in 1..Len(bank_accounts_of) |->
        AccountDict(bank_accounts_of[i],
                    IF bank_accounts_of[i].institution_id \in DOMAIN inst_map
                    THEN inst_map[bank_accounts_of[i].institution_id]
                    ELSE Null)]

\* Variant, not the code: the spending records are counted instead of their categories.
CategoryCountOfRecords(spending_of) == Len(spending_of)

\* len(set(s.category for s in spending))
CategoryCount(spending_of) == Cardinality({s.category : s \in Range(spending_of)})

\* sum(acc.balance for acc in bank_accounts)
TotalCash(bank_accounts_of) ==
    SumSeq([i \in 1..Len(bank_accounts_of) |-> bank_accounts_of[i].balance])

\* sum(s.amount for s in spending)
TotalSpending(spending_of) ==
    SumSeq([i \in 1..Len(spending_of) |-> spending_of[i].amount])

PortfolioSummary(customer_oid, as, accs, txs, sp, ders) ==
    [customer_oid |-> customer_oid,
     total_cash_balance |-> TotalCash(accs),
     total_spending |-> TotalSpending(sp),
     total_assets |-> Len(as),
     total_accounts |-> Len(accs),
     total_transactions |-> Len(txs),
     total_spending_categories |-> CategoryCount(sp),
     total_derivative_positions |-> Len(ders),
     has_data |-> [assets |-> Len(as) > 0,
                   accounts |-> Len(accs) > 0,
                   transactions |-> Len(txs) > 0,
                   spending |-> Len(sp) > 0,
                   derivatives |-> Len(ders) > 0]]

\* the 200 response, once the user row is found (one query so far)
PortfolioBody(customer_oid, user) ==
    LET as == SelectByOid(assets, customer_oid)
        txs == SelectByOid(transactions, customer_oid)
        sp == SelectByOid(spending, customer_oid)
        accs == SelectByOid(bank_accounts, customer_oid)
        ders == SelectByOid(derivative_transactions, customer_oid)
        inst_map == InstitutionMap(accs)
        queries == 6 + (IF accs # <<>> THEN 1 ELSE 0)
    IN  Response(200, queries,
            [customer_oid |-> customer_oid,
             user |-> [name |-> user.name, customer_oid |-> user.customer_oid],
             assets |-> as,
             bank_accounts |-> AccountsWithInstitution(accs, inst_map),
             transactions |-> txs,
             spending |-> sp,
             derivative_transactions |-> ders,
             portfolio_summary |-> PortfolioSummary(customer_oid, as, accs, txs, sp, ders)])

\* Variant, not the code: the user is looked up before the identifier is validated.
PortfolioLookupFirst(customer_oid) ==
    LET user == FirstByOid(users, customer_oid)
    IN  IF user = <<>> THEN Response(404, 1, <<>>)
        ELSE IF ~validate_customer_oid(customer_oid).ok THEN Response(400, 1, <<>>)
             ELSE PortfolioBody(customer_oid, user[1])

PortfolioResponse(customer_oid) ==
    LET v == validate_customer_oid(customer_oid)
    IN  IF ~v.ok THEN Response(400, 0, <<>>)
        ELSE LET user == FirstByOid(users, v.value)
             IN  IF user = <<>> THEN Response(404, 1, <<>>)
                 ELSE PortfolioBody(v.value, user[1])

get_user_portfolio ==
    \E customer_oid \in PathOids :
        /\ Idle
        /\ req' = Request("portfolio", TRUE, customer_oid, <<>>)
        /\ resp' = PortfolioResponse(customer_oid)
        /\ UNCHANGED tables

-----------------------------------------------------------------------------
(* GET /customers and GET /customer/{customer_oid}/exists *)

\* Variant, not the code: .first() in place of .all(), so one row at most is listed.
list_customers_first_only ==
    /\ Idle
    /\ req' = Request("list", FALSE, <<>>, <<>>)
    /\ resp' = Response(200, 1,
                   [i \in 1..(IF users = <<>> THEN 0 ELSE 1) |->
                       [customer_oid |-> users[i].customer_oid, name |-> users[i].name]])
    /\ UNCHANGED tables

list_customers ==
    /\ Idle
    /\ req' = Request("list", FALSE, <<>>, <<>>)
    /\ resp' = Response(200, 1,
                   [i \in 1..Len(users) |->
                       [customer_oid |-> users[i].customer_oid, name |-> users[i].name]])
    /\ UNCHANGED tables

\* Variant, not the code: the user is looked up before the identifier is validated.
ExistsLookupFirst(customer_oid) ==
    LET user == FirstByOid(users, customer_oid)
        v == validate_customer_oid(customer_oid)
    IN  IF ~v.ok THEN Response(400, 1, <<>>)
        ELSE Response(200, 1,
                 [customer_oid |-> v.value,
                  exists |-> user # <<>>,
                  name |-> IF user # <<>> THEN user[1].name ELSE Null])

ExistsResponse(customer_oid) ==
    LET v == validate_customer_oid(customer_oid)
    IN  IF ~v.ok THEN Response(400, 0, <<>>)
        ELSE LET user == FirstByOid(users, v.value)
             IN  Response(200, 1,
                     [customer_oid |-> v.value,
                      exists |-> user # <<>>,
                      name |-> IF user # <<>> THEN user[1].name ELSE Null])

\* Variant, not the code: get-or-create, a missing customer is inserted by the check.
check_customer_exists_get_or_create ==
    \E customer_oid \in PathOids :
        /\ Idle
        /\ req' = Request("exists", TRUE, customer_oid, <<>>)
        /\ resp' = ExistsResponse(customer_oid)
        /\ users' = IF validate_customer_oid(customer_oid).ok
                        /\ FirstByOid(users, customer_oid) = <<>>
                        /\ Len(users) < MaxUsers
                     THEN Append(users, User(customer_oid, <<>>))
                     ELSE users
        /\ UNCHANGED <<assets, transactions, spending, bank_accounts,
                       institutions, derivative_transactions>>

check_customer_exists ==
    \E customer_oid \in PathOids :
        /\ Idle
        /\ req' = Request("exists", TRUE, customer_oid, <<>>)
        /\ resp' = ExistsResponse(customer_oid)
        /\ UNCHANGED tables

-----------------------------------------------------------------------------
(* POST /register-customer *)

\* Variant, not the code: the existence check never finds a row.
NoExistingUser(customer_oid) == <<>>

\* session.exec(select(User).where(User.customer_oid == customer_oid)).first()
ExistingUser(customer_oid) == FirstByOid(users, customer_oid)

\* Variant, not the code: the length is taken without stripping.
NameTooShortUnstripped(name) == name = <<>> \/ Len(name) < 2

\* not user_data.name or len(user_data.name.strip()) < 2
NameTooShort(name) == name = <<>> \/ Len(StripChars(name, Whitespace)) < 2

\* `if user_data.customer_oid:` is false for None and for the empty string
OidSupplied(has_oid, customer_oid) == has_oid /\ customer_oid # <<>>

\* Variant, not the code: the name is validated before the existence check.
RegisterOutcomeNameFirst(has_oid, oid, name, uuid4) ==
    LET supplied == OidSupplied(has_oid, oid)
        v == IF supplied THEN validate_customer_oid(oid) ELSE Accept(uuid4)
    IN  IF ~v.ok THEN [resp |-> Response(400, 0, <<>>), users |-> users]
        ELSE IF NameTooShort(name)
             THEN [resp |-> Response(400, 0, <<>>), users |-> users]
             ELSE IF ExistingUser(v.value) # <<>>
                  THEN [resp |-> Response(409, 1, <<>>), users |-> users]
                  ELSE [resp |-> Response(200, 2,
                                   [customer_oid |-> v.value,
                                    name |-> StripChars(name, Whitespace),
                                    message |-> "Customer registered successfully"]),
                        users |-> Append(users, User(v.value, StripChars(name, Whitespace)))]

\* The response and the users table after the request; uuid4 is what
\* uuid.uuid4() returns if it is called.
RegisterOutcome(has_oid, oid, name, uuid4) ==
    LET supplied == OidSupplied(has_oid, oid)
        v == IF supplied THEN validate_customer_oid(oid) ELSE Accept(uuid4)
    IN  IF ~v.ok THEN [resp |-> Response(400, 0, <<>>), users |-> users]
        ELSE IF ExistingUser(v.value) # <<>>
             THEN [resp |-> Response(409, 1, <<>>), users |-> users]
             ELSE IF NameTooShort(name)
                  THEN [resp |-> Response(400, 1, <<>>), users |-> users]
                  ELSE LET new_user == User(v.value, StripChars(name, Whitespace))
                       IN  [resp |-> Response(200, 2,
                                        [customer_oid |-> v.value,
                                         name |-> new_user.name,
                                         message |-> "Customer registered successfully"]),
                            users |-> Append(users, new_user)]

register_customer ==
    \E has_oid \in BOOLEAN, name \in ReqNames, uuid4 \in Uuid4Pool :
        \E oid \in (IF has_oid THEN ReqOids ELSE {<<>>}) :
            LET out == RegisterOutcome(has_oid, oid, name, uuid4)
            IN  /\ Idle
                /\ Len(out.users) <= MaxUsers
                /\ req' = Request("register", has_oid, oid, name)
                /\ resp' = out.resp
                /\ users' = out.users
                /\ UNCHANGED <<assets, transactions, spending, bank_accounts,
                               institutions, derivative_transactions>>

-----------------------------------------------------------------------------
(* DELETE /customer/{customer_oid} *)

\* Variant, not the code: the identifier goes to the store without validation.
delete_customer_unvalidated ==
    \E customer_oid \in PathOids :
        LET user == FirstByOid(users, customer_oid)
        IN  /\ Idle
            /\ req' = Request("delete", TRUE, customer_oid, <<>>)
            /\ IF user = <<>>
               THEN resp' = Response(404, 1, <<>>) /\ UNCHANGED tables
               ELSE /\ assets' = DeleteByOid(assets, customer_oid)
                    /\ transactions' = DeleteByOid(transactions, customer_oid)
                    /\ spending' = DeleteByOid(spending, customer_oid)
                    /\ bank_accounts' = DeleteByOid(bank_accounts, customer_oid)
                    /\ derivative_transactions' =
                           DeleteByOid(derivative_transactions, customer_oid)
                    /\ users' = DeleteFirstByOid(users, customer_oid)
                    /\ UNCHANGED institutions
                    /\ resp' = Response(200, 6,
                           [customer_oid |-> customer_oid,
                            message |-> "Customer and all associated data deleted successfully"])

delete_customer ==
    \E customer_oid \in PathOids :
        LET v == validate_customer_oid(customer_oid)
            user == FirstByOid(users, v.value)
        IN  /\ Idle
            /\ req' = Request("delete", TRUE, customer_oid, <<>>)
            /\ IF ~v.ok
               THEN resp' = Response(400, 0, <<>>) /\ UNCHANGED tables
               ELSE IF user = <<>>
                    THEN resp' = Response(404, 1, <<>>) /\ UNCHANGED tables
                    ELSE /\ assets' = DeleteByOid(assets, v.value)
                         /\ transactions' = DeleteByOid(transactions, v.value)
                         /\ spending' = DeleteByOid(spending, v.value)
                         /\ bank_accounts' = DeleteByOid(bank_accounts, v.value)
                         /\ derivative_transactions' =
                                DeleteByOid(derivative_transactions, v.value)
                         /\ users' = DeleteFirstByOid(users, v.value)
                         /\ UNCHANGED institutions
                         /\ resp' = Response(200, 6,
                                [customer_oid |-> v.value,
                                 message |-> "Customer and all associated data deleted successfully"])

-----------------------------------------------------------------------------------------------------------------------------------------------------
(* create_sample_data and test fixtures: rows are added for customers that  *)
(* have a users row; institution_id is a plain integer column, so an        *)
(* account may name an id that no institutions row carries.  Each loader    *)
(* takes the number of customer-owned rows it may fill the store to and the *)
(* column values it draws from.                                             *)

CustomerOids == {u.customer_oid : u \in Range(users)}

DependentRows ==
    Len(assets) + Len(transactions) + Len(spending) + Len(bank_accounts)
        + Len(derivative_transactions)

SeedInstitution ==
    /\ Idle
    /\ Len(institutions) < MaxInstitutions
    /\ \E name \in InstitutionNames :
          institutions' = Append(institutions, Institution(NextId(institutions), name))
    /\ UNCHANGED <<users, assets, transactions, spending, bank_accounts,
                   derivative_transactions, req, resp>>

SeedAsset(max_rows) ==
    /\ Idle
    /\ DependentRows < max_rows
    /\ \E c \in CustomerOids : assets' = Append(assets, Asset(c))
    /\ UNCHANGED <<users, transactions, spending, bank_accounts, institutions,
                   derivative_transactions, req, resp>>

SeedTransaction(max_rows) ==
    /\ Idle
    /\ DependentRows < max_rows
    /\ \E c \in CustomerOids : transactions' = Append(transactions, Transaction(c))
    /\ UNCHANGED <<users, assets, spending, bank_accounts, institutions,
                   derivative_transactions, req, resp>>

SeedSpending(max_rows, categories, amounts) ==
    /\ Idle
    /\ DependentRows < max_rows
    /\ \E c \in CustomerOids, category \in categories, amount \in amounts :
          spending' = Append(spending, Spending(c, category, amount))
    /\ UNCHANGED <<users, assets, transactions, bank_accounts, institutions,
                   derivative_transactions, req, resp>>

SeedBankAccount(max_rows, institution_ids, balances) ==
    /\ Idle
    /\ DependentRows < max_rows
    /\ \E c \in CustomerOids, institution_id \in institution_ids, balance \in balances :
          bank_accounts' = Append(bank_accounts, BankAccount(c, institution_id, balance))
    /\ UNCHANGED <<users, assets, transactions, spending, institutions,
                   derivative_transactions, req, resp>>

SeedDerivative(max_rows) ==
    /\ Idle
    /\ DependentRows < max_rows
    /\ \E c \in CustomerOids :
          derivative_transactions' =
              Append(derivative_transactions, DerivativeTransaction(c))
    /\ UNCHANGED <<users, assets, transactions, spending, bank_accounts, institutions,
                   req, resp>>

-----------------------------------------------------------------------------
(* The API over a store that starts empty: every handler, and the loader   *)
(* with one kind of row per table                                           *)

Init == EmptyStore /\ req = NoReq /\ resp = NoResp

Next ==
    \/ get_user_portfolio
    \/ list_customers
    \/ check_customer_exists
    \/ register_customer
    \/ delete_customer
    \/ get_db_session_close
    \/ SeedInstitution
    \/ SeedAsset(MaxRows)
    \/ SeedTransaction(MaxRows)
    \/ SeedSpending(MaxRows, {"food"}, {50})
    \/ SeedBankAccount(MaxRows, {1}, {100})
    \/ SeedDerivative(MaxRows)

Spec == Init /\ [][Next]_vars

-----------------------------------------------------------------------------
(* The aggregator over the stores of two registered customers: the loader   *)
(* with every column value, and GET /user-portfolio                         *)

InitPortfolio ==
    /\ users = <<User(SampleOid, <<"A", "l">>), User(OtherOid, <<"B", "o">>)>>
    /\ assets = <<>>
    /\ transactions = <<>>
    /\ spending = <<>>
    /\ bank_accounts = <<>>
    /\ institutions = <<>>
    /\ derivative_transactions = <<>>
    /\ req = NoReq
    /\ resp = NoResp

NextPortfolio ==
    \/ get_user_portfolio
    \/ get_db_session_close
    \/ SeedInstitution
    \/ SeedAsset(MaxPortfolioRows)
    \/ SeedTransaction(MaxPortfolioRows)
    \/ SeedSpending(MaxPortfolioRows, Categories, Amounts)
    \/ SeedBankAccount(MaxPortfolioRows, InstitutionIds, Balances)
    \/ SeedDerivative(MaxPortfolioRows)

SpecPortfolio == InitPortfolio /\ [][NextPortfolio]_vars

-----------------------------------------------------------------------------
(* register_customer and delete_customer statement by statement.  The sync  *)
(* handlers run in worker threads, one request per thread, each with the    *)
(* session get_db_session opened for it.  Here req and resp hold one entry  *)
(* per worker.  The seven tables are the committed store, which is what any *)
(* other session reads.  Every session.exec, commit and refresh may raise   *)
(* (OperationalError, "database is locked", ...); the INSERT of commit()    *)
(* raises IntegrityError when the unique index on users.customer_oid finds  *)
(* the value already committed.  The DELETE statements a session has        *)
(* flushed stay inside its transaction until commit(); rollback() discards  *)
(* them, and so does close().  A users row is known by its customer_oid.    *)

Workers == {1, 2}

SessionOids == {OtherOid, Cust001}
SessionNames == {<<"A">>, <<"A", "l">>}

\* Variant, not the code: the loop over the derivative transactions is missing.
DependentTablesWithoutDerivatives ==
    <<"assets", "transactions", "spending", "bank_accounts">>

\* the order of the delete loops of delete_customer
DependentTables ==
    <<"assets", "transactions", "spending", "bank_accounts", "derivative_transactions">>

\* a request in a worker: its operation, the identifier after validation or
\* generation, where the handler stands, the state of its session, and the
\* tables whose rows its transaction has deleted and not yet committed
Call(op, customer_oid, name, pc, session, tx) ==
    [op |-> op, customer_oid |-> customer_oid, name |-> name, pc |-> pc,
     session |-> session, tx |-> tx]

NoCall == Call("none", <<>>, <<>>, "idle", "none", {})

\* the status the client gets, why, and the statement the handler left at
Outcome(status, detail, at) == [status |-> status, detail |-> detail, at |-> at]

NoOutcome == Outcome(0, "none", "none")

StoreNow ==
    [users |-> users, assets |-> assets, transactions |-> transactions,
     spending |-> spending, bank_accounts |-> bank_accounts,
     institutions |-> institutions,
     derivative_transactions |-> derivative_transactions]

SetStore(s) ==
    /\ users' = s.users
    /\ assets' = s.assets
    /\ transactions' = s.transactions
    /\ spending' = s.spending
    /\ bank_accounts' = s.bank_accounts
    /\ institutions' = s.institutions
    /\ derivative_transactions' = s.derivative_transactions

\* the store once the DELETE statements of tx, all for customer_oid, are applied
ApplyTx(store, tx, customer_oid) ==
    [users |-> IF "users" \in tx
               THEN DeleteFirstByOid(store.users, customer_oid) ELSE store.users,
     assets |-> IF "assets" \in tx
                THEN DeleteByOid(store.assets, customer_oid) ELSE store.assets,
     transactions |-> IF "transactions" \in tx
                      THEN DeleteByOid(store.transactions, customer_oid)
                      ELSE store.transactions,
     spending |-> IF "spending" \in tx
                  THEN DeleteByOid(store.spending, customer_oid) ELSE store.spending,
     bank_accounts |-> IF "bank_accounts" \in tx
                       THEN DeleteByOid(store.bank_accounts, customer_oid)
                       ELSE store.bank_accounts,
     institutions |-> store.institutions,
     derivative_transactions |->
         IF "derivative_transactions" \in tx
         THEN DeleteByOid(store.derivative_transactions, customer_oid)
         ELSE store.derivative_transactions]

\* Variant, not the code: every flushed DELETE is committed at once (autocommit).
StoreAfterFlushAutocommit(store, tx, customer_oid) == ApplyTx(store, tx, customer_oid)

\* the committed store after a session flushed DELETE statements without commit()
StoreAfterFlush(store, tx, customer_oid) == store

\* the committed store after session.commit()
StoreAfterCommit(store, tx, customer_oid) == ApplyTx(store, tx, customer_oid)

\* Variant, not the code: users.customer_oid carries no unique index.
UniqueNotEnforced(t, customer_oid) == FALSE

\* customer_oid: str = Field(index=True, unique=True)
UniqueViolation(t, customer_oid) == \E r \in Range(t) : r.customer_oid = customer_oid

\* Variant, not the code: no try/finally, the session is closed only after a normal return.
SessionAfterExitOnReturnOnly(status) == IF status = 200 THEN "closed" ELSE "open"

\* try: yield session / finally: session.close()
SessionAfterExit(status) == "closed"

\* the handler returns or raises HTTPException(status)
Exit(w, status, detail) ==
    /\ req' = [req EXCEPT ![w].pc = "return", ![w].tx = {}]
    /\ resp' = [resp EXCEPT ![w] = Outcome(status, detail, req[w].pc)]

\* except Exception: session.rollback(); raise HTTPException(500)
Rollback500(w, detail) == Exit(w, 500, detail)

Goto(w, pc) ==
    /\ req' = [req EXCEPT ![w].pc = pc]
    /\ UNCHANGED resp

\* get_db_session yields the session, then the handler starts: the identifier
\* is validated, or generated, before anything is asked of the store
receive_register(w) ==
    \E has_oid \in BOOLEAN, name \in SessionNames, uuid4 \in Uuid4Pool :
        \E oid \in (IF has_oid THEN SessionOids ELSE {<<>>}) :
            LET v == IF OidSupplied(has_oid, oid)
                     THEN validate_customer_oid(oid) ELSE Accept(uuid4)
            IN  /\ req[w].pc \in {"idle", "closed"}
                /\ req' = [req EXCEPT ![w] =
                              Call("register", IF v.ok THEN v.value ELSE oid, name,
                                   IF v.ok THEN "check" ELSE "return", "open", {})]
                /\ resp' = [resp EXCEPT ![w] =
                              IF v.ok THEN NoOutcome
                              ELSE Outcome(400, "invalid identifier", "validate")]
                /\ UNCHANGED tables

\* existing_user = session.exec(...).first(), then the name check
register_check(w) ==
    /\ req[w].op = "register"
    /\ req[w].pc = "check"
    /\ UNCHANGED tables
    /\ \E fails \in BOOLEAN :
          IF fails THEN Rollback500(w, "store failure")
          ELSE IF ExistingUser(req[w].customer_oid) # <<>>
               THEN Exit(w, 409, "already exists")
               ELSE IF NameTooShort(req[w].name)
                    THEN Exit(w, 400, "name too short")
                    ELSE Goto(w, "commit")

\* session.add(new_user); session.commit()
register_commit(w) ==
    /\ req[w].op = "register"
    /\ req[w].pc = "commit"
    /\ \E fails \in BOOLEAN :
          IF fails
          THEN Rollback500(w, "store failure") /\ UNCHANGED tables
          ELSE IF UniqueViolation(users, req[w].customer_oid)
               THEN Rollback500(w, "IntegrityError") /\ UNCHANGED tables
               ELSE /\ users' = Append(users, User(req[w].customer_oid,
                                                   StripChars(req[w].name, Whitespace)))
                    /\ UNCHANGED <<assets, transactions, spending, bank_accounts,
                                   institutions, derivative_transactions>>
                    /\ Goto(w, "refresh")

\* session.refresh(new_user), then the response
register_refresh(w) ==
    /\ req[w].op = "register"
    /\ req[w].pc = "refresh"
    /\ UNCHANGED tables
    /\ \E fails \in BOOLEAN :
          IF fails THEN Rollback500(w, "store failure")
          ELSE Exit(w, 200, "registered")

\* validate_customer_oid runs before the try block
receive_delete(w) ==
    \E oid \in PathOids :
        LET v == validate_customer_oid(oid)
        IN  /\ req[w].pc \in {"idle", "closed"}
            /\ req' = [req EXCEPT ![w] =
                          Call("delete", IF v.ok THEN v.value ELSE oid, <<>>,
                               IF v.ok THEN "lookup" ELSE "return", "open", {})]
            /\ resp' = [resp EXCEPT ![w] =
                          IF v.ok THEN NoOutcome
                          ELSE Outcome(400, "invalid identifier", "validate")]
            /\ UNCHANGED tables

\* user = session.exec(select(User)...).first()
delete_lookup(w) ==
    /\ req[w].op = "delete"
    /\ req[w].pc = "lookup"
    /\ UNCHANGED tables
    /\ \E fails \in BOOLEAN :
          IF fails THEN Rollback500(w, "store failure")
          ELSE IF FirstByOid(users, req[w].customer_oid) = <<>>
               THEN Exit(w, 404, "not found")
               ELSE Goto(w, DependentTables[1])

\* one select and its loop of session.delete: the rows are deleted inside the
\* transaction of the session
delete_rows(w) ==
    \E k \in 1..Len(DependentTables) :
        /\ req[w].op = "delete"
        /\ req[w].pc = DependentTables[k]
        /\ \E fails \in BOOLEAN :
              IF fails
              THEN Rollback500(w, "store failure") /\ UNCHANGED tables
              ELSE LET tx == req[w].tx \cup {DependentTables[k]}
                   IN  /\ SetStore(StoreAfterFlush(StoreNow, tx, req[w].customer_oid))
                       /\ req' = [req EXCEPT
                                     ![w].tx = tx,
                                     ![w].pc = IF k < Len(DependentTables)
                                               THEN DependentTables[k + 1] ELSE "commit"]
                       /\ UNCHANGED resp

\* session.delete(user); session.commit()
delete_commit(w) ==
    /\ req[w].op = "delete"
    /\ req[w].pc = "commit"
    /\ \E fails \in BOOLEAN :
          IF fails
          THEN Rollback500(w, "store failure") /\ UNCHANGED tables
          ELSE /\ SetStore(StoreAfterCommit(StoreNow, req[w].tx \cup {"users"},
                                            req[w].customer_oid))
               /\ Exit(w, 200, "deleted")

\* get_db_session resumes after the response or the exception
session_close(w) ==
    /\ req[w].pc = "return"
    /\ req' = [req EXCEPT ![w] =
                  Call("none", <<>>, <<>>, "closed", SessionAfterExit(resp[w].status), {})]
    /\ UNCHANGED <<tables, resp>>

\* what a worker does once it has a request
Handle(w) ==
    \/ register_check(w)
    \/ register_commit(w)
    \/ register_refresh(w)
    \/ delete_lookup(w)
    \/ delete_rows(w)
    \/ delete_commit(w)
    \/ session_close(w)

\* one customer with a row in every dependent table, as create_sample_data
\* leaves the first customer
InitSessions ==
    /\ users = <<User(SampleOid, <<"A", "l">>)>>
    /\ assets = <<Asset(SampleOid)>>
    /\ transactions = <<Transaction(SampleOid)>>
    /\ spending = <<Spending(SampleOid, "food", 50)>>
    /\ bank_accounts = <<BankAccount(SampleOid, 1, 100)>>
    /\ institutions = <<Institution(1, "Global Bank")>>
    /\ derivative_transactions = <<DerivativeTransaction(SampleOid)>>
    /\ req = [w \in Workers |-> NoCall]
    /\ resp = [w \in Workers |-> NoOutcome]

NextSessions ==
    \E w \in Workers :
        \/ receive_register(w)
        \/ receive_delete(w)
        \/ Handle(w)

SpecSessions == InitSessions /\ [][NextSessions]_vars

\* A worker thread that has a request runs its handler to the end, and the
\* dependency is resumed after it: no handler step waits for another worker.
SpecSessionsFair ==
    InitSessions /\ [][NextSessions]_vars /\ \A w \in Workers : WF_vars(Handle(w))

-----------------------------------------------------------------------------
(* Reference shapes of an identifier, independent of the parsing above *)

HyphenPositions == {9, 14, 19, 24}

IsCanonicalUUID(s) ==
    /\ Len(s) = MaxOidLen
    /\ \A i \in 1..Len(s) :
          IF i \in HyphenPositions THEN s[i] = "-" ELSE s[i] \in HexDigits

IsLegacyShape(s) ==
    /\ Len(s) \in MinOidLen..MaxOidLen
    /\ \A i \in 1..Len(s) : s[i] \in UpperLetters \cup Digits \cup {"-"}

Validated == req.op = "validate" /\ resp # NoResp

\* C1: every canonical hyphenated UUID, in lowercase, uppercase or mixed case,
\* is accepted and handed back character for character.
C1_CanonicalUuidAcceptedUnchanged ==
    (Validated /\ IsCanonicalUUID(req.customer_oid))
        => (resp.status = 200 /\ resp.body = req.customer_oid)

C1_Witness ==
    /\ Validated
    /\ IsCanonicalUUID(req.customer_oid)
    /\ \E i \in 1..Len(req.customer_oid) : req.customer_oid[i] \in HexUpper
    /\ \E i \in 1..Len(req.customer_oid) : req.customer_oid[i] \in HexLower
    /\ resp.status = 200

\* C2: a string that is not a canonical hyphenated UUID is accepted when it has
\* 8 to 36 characters, all of them uppercase letters, digits or hyphens, and is
\* rejected with 400 when its length is outside [8,36] or it holds any other
\* character.
C2_NonUuidDecidedByLegacyShape ==
    (Validated /\ ~IsCanonicalUUID(req.customer_oid))
        => IF IsLegacyShape(req.customer_oid)
           THEN resp.status = 200 /\ resp.body = req.customer_oid
           ELSE resp.status = 400

-----------------------------------------------------------------------------
(* Reference definitions for the request-level claims, written over the    *)
(* tables themselves and not with the handlers' helpers                     *)

WellFormed(s) == IsCanonicalUUID(s) \/ IsLegacyShape(s)

\* the positions of the rows of table t that belong to customer_oid
Own(t, customer_oid) == {i \in 1..Len(t) : t[i].customer_oid = customer_oid}

\* the k-th of them in table order
NthOwn(t, customer_oid, k) ==
    CHOOSE i \in Own(t, customer_oid) :
        Cardinality({j \in Own(t, customer_oid) : j < i}) = k - 1

RECURSIVE RefSum(_, _)
RefSum(I, f) ==
    IF I = {} THEN 0
    ELSE LET i == CHOOSE j \in I : TRUE IN f[i] + RefSum(I \ {i}, f)

RefSummary(customer_oid) ==
    [customer_oid |-> customer_oid,
     total_cash_balance |->
         RefSum(Own(bank_accounts, customer_oid),
                [i \in 1..Len(bank_accounts) |-> bank_accounts[i].balance]),
     total_spending |->
         RefSum(Own(spending, customer_oid),
                [i \in 1..Len(spending) |-> spending[i].amount]),
     total_assets |-> Cardinality(Own(assets, customer_oid)),
     total_accounts |-> Cardinality(Own(bank_accounts, customer_oid)),
     total_transactions |-> Cardinality(Own(transactions, customer_oid)),
     total_spending_categories |->
         Cardinality({spending[i].category : i \in Own(spending, customer_oid)}),
     total_derivative_positions |-> Cardinality(Own(derivative_transactions, customer_oid)),
     has_data |-> [assets |-> Own(assets, customer_oid) # {},
                   accounts |-> Own(bank_accounts, customer_oid) # {},
                   transactions |-> Own(transactions, customer_oid) # {},
                   spending |-> Own(spending, customer_oid) # {},
                   derivatives |-> Own(derivative_transactions, customer_oid) # {}]]

NoRecords(customer_oid) ==
    /\ Own(assets, customer_oid) = {}
    /\ Own(transactions, customer_oid) = {}
    /\ Own(spending, customer_oid) = {}
    /\ Own(bank_accounts, customer_oid) = {}
    /\ Own(derivative_transactions, customer_oid) = {}

ZeroSummary(sm) ==
    /\ sm.total_cash_balance = 0
    /\ sm.total_spending = 0
    /\ sm.total_assets = 0
    /\ sm.total_accounts = 0
    /\ sm.total_transactions = 0
    /\ sm.total_spending_categories = 0
    /\ sm.total_derivative_positions = 0
    /\ ~sm.has_data.assets
    /\ ~sm.has_data.accounts
    /\ ~sm.has_data.transactions
    /\ ~sm.has_data.spending
    /\ ~sm.has_data.derivatives

\* the name without its leading and trailing whitespace
RefTrim(name) ==
    LET solid == {i \in 1..Len(name) : name[i] \notin Whitespace}
    IN  IF solid = {} THEN <<>>
        ELSE SubSeq(name,
                    CHOOSE i \in solid : \A j \in solid : i <= j,
                    CHOOSE i \in solid : \A j \in solid : j <= i)

\* a step that handles a POST /register-customer request
RegisterStep == req = NoReq /\ req'.op = "register"

-----------------------------------------------------------------------------
(* Portfolio aggregation *)

C4_SummaryIsReferenceAggregate ==
    (req.op = "portfolio" /\ req.customer_oid \in CustomerOids)
        => /\ resp.status = 200
           /\ resp.body.portfolio_summary = RefSummary(req.customer_oid)

C4_Witness ==
    /\ req.op = "portfolio"
    /\ resp.status = 200
    /\ resp.body.portfolio_summary.total_spending = 150
    /\ resp.body.portfolio_summary.total_spending_categories = 1

\* C5: a customer with a users row and no row in any dependent table
\* aggregates without error to all flags false, all counts zero and both
\* totals 0; so does every customer right after a successful registration.
C5_EmptyCustomerAggregatesToZero ==
    /\ (req.op = "portfolio" /\ req.customer_oid \in CustomerOids
            /\ NoRecords(req.customer_oid))
          => (resp.status = 200 /\ ZeroSummary(resp.body.portfolio_summary))
    /\ (req.op = "register" /\ resp.status = 200)
          => LET r == PortfolioResponse(resp.body.customer_oid)
             IN  r.status = 200 /\ ZeroSummary(r.body.portfolio_summary)

C5_Witness ==
    /\ req.op = "portfolio"
    /\ resp.status = 200
    /\ NoRecords(req.customer_oid)
    /\ bank_accounts # <<>>
    /\ spending # <<>>
    /\ ZeroSummary(resp.body.portfolio_summary)

\* C6: every bank account of the customer is in the output, in table order,
\* with the institutions row whose id is its institution_id, or with a null
\* institution when there is no such row; a dangling reference neither fails
\* the request nor drops the account.
C6_AccountsCarryInstitutionOrNull ==
    (req.op = "portfolio" /\ req.customer_oid \in CustomerOids)
        => /\ resp.status = 200
           /\ LET out == resp.body.bank_accounts
                  own == Own(bank_accounts, req.customer_oid)
              IN  /\ Len(out) = Cardinality(own)
                  /\ \A k \in 1..Len(out) :
                        LET acc == bank_accounts[NthOwn(bank_accounts, req.customer_oid, k)]
                            found == {inst \in Range(institutions) :
                                          inst.id = acc.institution_id}
                        IN  /\ out[k].institution_id = acc.institution_id
                            /\ out[k].balance = acc.balance
                            /\ out[k].customer_oid = req.customer_oid
                            /\ IF found = {} THEN out[k].institution = Null
                               ELSE out[k].institution \in found

C6_Witness ==
    /\ req.op = "portfolio"
    /\ resp.status = 200
    /\ Len(resp.body.bank_accounts) = 2
    /\ resp.body.bank_accounts[1].institution = Null
    /\ resp.body.bank_accounts[2].institution # Null

-----------------------------------------------------------------------------
(* Registration *)

\* C7 as stated: a registration without customer_oid and with a valid name
\* always succeeds, and its identifier is accepted by the validator and is
\* that of no Identity registered before.
C7_GeneratedAlwaysFresh ==
    [][(RegisterStep /\ ~req'.has_oid /\ Len(RefTrim(req'.name)) >= 2)
          => /\ resp'.status = 200
             /\ validate_customer_oid(resp'.body.customer_oid).ok
             /\ resp'.body.customer_oid \notin CustomerOids]_vars

\* C7 amended: such a registration either succeeds with a canonical UUID that
\* the validator accepts and that no Identity in the store carries, or, when
\* the generated UUID is that of an Identity in the store, fails with 409 and
\* changes nothing.
C7_GeneratedFreshOrConflict ==
    [][(RegisterStep /\ ~req'.has_oid /\ Len(RefTrim(req'.name)) >= 2)
          => \/ /\ resp'.status = 200
                /\ IsCanonicalUUID(resp'.body.customer_oid)
                /\ validate_customer_oid(resp'.body.customer_oid).ok
                /\ validate_customer_oid(resp'.body.customer_oid).value
                      = resp'.body.customer_oid
                /\ resp'.body.customer_oid \notin CustomerOids
                /\ Own(users', resp'.body.customer_oid) = {Len(users')}
             \/ /\ resp'.status = 409
                /\ CustomerOids \cap Uuid4Pool # {}
                /\ UNCHANGED tables]_vars

C7_Witness ==
    /\ req.op = "register"
    /\ ~req.has_oid
    /\ resp.status = 200
    /\ Len(users) = 2
    /\ users[2].customer_oid = resp.body.customer_oid
    /\ users[1].customer_oid # resp.body.customer_oid

\* C8: registering a customer_oid that already has an Identity fails with 409
\* whatever the name, valid or not, and leaves every table as it was.
C8_DuplicateIsConflict ==
    [][(RegisterStep /\ req'.has_oid /\ req'.customer_oid \in CustomerOids)
          => (resp'.status = 409 /\ UNCHANGED tables)]_vars

C8_Witness ==
    /\ req.op = "register"
    /\ req.has_oid
    /\ resp.status = 409
    /\ Len(RefTrim(req.name)) < 2
    /\ \E u \in Range(users) : u.customer_oid = req.customer_oid /\ u.name # <<>>

\* C9: a registration that supplies a customer_oid the validator rejects, the
\* empty string included, fails with 400 and creates no Identity.
C9_RejectedOidIsInvalidArgument ==
    [][(RegisterStep /\ req'.has_oid /\ ~validate_customer_oid(req'.customer_oid).ok)
          => (resp'.status = 400 /\ UNCHANGED tables)]_vars

\* C10 as stated: with the identifier omitted, or valid and not registered, a
\* name of fewer than 2 characters after trimming gives 400 and no Identity;
\* any other name inserts one Identity with the trimmed name and the returned
\* customer_oid.
C10_NameDecidesRegistration ==
    [][(RegisterStep
          /\ \/ ~req'.has_oid
             \/ (WellFormed(req'.customer_oid) /\ req'.customer_oid \notin CustomerOids))
          => IF Len(RefTrim(req'.name)) < 2
             THEN resp'.status = 400 /\ UNCHANGED tables
             ELSE /\ resp'.status = 200
                  /\ resp'.body.name = RefTrim(req'.name)
                  /\ users' = Append(users, [customer_oid |-> resp'.body.customer_oid,
                                             name |-> RefTrim(req'.name)])]_vars

\* C10 amended: the same, for a request whose identifier is valid and not
\* registered, or is omitted and whose generated UUID is not registered (the
\* request does not end in 409).
C10_NameDecidesRegistrationUnlessConflict ==
    [][(RegisterStep
          /\ \/ (~req'.has_oid /\ resp'.status # 409)
             \/ (req'.has_oid /\ WellFormed(req'.customer_oid)
                    /\ req'.customer_oid \notin CustomerOids))
          => IF Len(RefTrim(req'.name)) < 2
             THEN resp'.status = 400 /\ UNCHANGED tables
             ELSE /\ resp'.status = 200
                  /\ resp'.body.name = RefTrim(req'.name)
                  /\ (req'.has_oid => resp'.body.customer_oid = req'.customer_oid)
                  /\ users' = Append(users, [customer_oid |-> resp'.body.customer_oid,
                                             name |-> RefTrim(req'.name)])
                  /\ UNCHANGED <<assets, transactions, spending, bank_accounts,
                                 institutions, derivative_transactions>>]_vars

C10_Witness ==
    /\ req.op = "register"
    /\ resp.status = 200
    /\ Len(req.name) > Len(resp.body.name)
    /\ users[Len(users)].name = resp.body.name

-----------------------------------------------------------------------------
(* Deletion *)

\* a step that handles a DELETE /customer/{customer_oid} request
DeleteStep == req = NoReq /\ req'.op = "delete"

\* nothing of the customer of the request is left, and the existence check
\* says so
DeletedClean ==
    /\ NoRecords(req.customer_oid)
    /\ Own(users, req.customer_oid) = {}
    /\ ExistsResponse(req.customer_oid).status = 200
    /\ ~ExistsResponse(req.customer_oid).body.exists

\* C11: after a successful delete_customer(X) no dependent row of X and no
\* Identity of X remains, an existence check for X answers exists = false, and
\* the Institution rows are what they were.
C11_DeleteRemovesCustomerOnly ==
    /\ []((req.op = "delete" /\ resp.status = 200) => DeletedClean)
    /\ [][(DeleteStep /\ resp'.status = 200)
            => /\ institutions' = institutions
               /\ Own(users', req'.customer_oid) = {}
               /\ Own(users, req'.customer_oid) # {}]_vars

C11_Witness ==
    /\ req.op = "delete"
    /\ resp.status = 200
    /\ DeletedClean
    /\ institutions # <<>>
    /\ users # <<>>
    /\ DependentRows > 0

-----------------------------------------------------------------------------
(* Transactions, races and sessions *)

\* the five customer-owned tables besides users
DependentTableSet ==
    {"assets", "transactions", "spending", "bank_accounts", "derivative_transactions"}

\* the dependent tables that hold a row of customer_oid
HoldingTables(customer_oid) ==
    {t \in DependentTableSet : Own(StoreNow[t], customer_oid) # {}}

\* a statement of the delete handler of worker w is executed
DeleteHandlerStep(w) ==
    /\ req[w].op = "delete"
    /\ req[w].pc # "return"
    /\ req'[w] # req[w]

\* C13: a delete_customer request changes the committed store in one step
\* only, its successful commit, which removes every row of the customer at
\* once; a failure of any of its seven store calls ends it with 500 and the
\* committed store as it was; no state with only some of a customer's rows
\* deleted is ever committed.
C13_DeleteIsAllOrNothing ==
    /\ [][\A w \in Workers :
            DeleteHandlerStep(w)
               => /\ resp'[w].detail = "store failure"
                        => (resp'[w].status = 500 /\ UNCHANGED tables)
                  /\ resp'[w].status \in {404, 500} => UNCHANGED tables
                  /\ ~(UNCHANGED tables)
                        => /\ req[w].pc = "commit"
                           /\ resp'[w].status = 200
                           /\ HoldingTables(req[w].customer_oid)' = {}
                           /\ Own(users', req[w].customer_oid) = {}
                           /\ institutions' = institutions]_vars
    /\ [](\A x \in Uuid4Pool :
            \/ HoldingTables(x) = {}
            \/ HoldingTables(x) = DependentTableSet /\ Own(users, x) # {})

C13_Witness ==
    \E w \in Workers :
        /\ req[w].op = "delete"
        /\ resp[w].status = 500
        /\ resp[w].at = "commit"
        /\ HoldingTables(req[w].customer_oid) = DependentTableSet
        /\ Own(users, req[w].customer_oid) # {}

\* C14: a registration that passed the existence check and finds, when it
\* inserts, that another registration has committed the same customer_oid in
\* the meantime, is answered 409 and changes nothing (store failures apart).
C14_RaceSurfacesAsConflict ==
    [][\A w \in Workers :
          (/\ req[w].op = "register"
           /\ req[w].pc = "commit"
           /\ req'[w].pc # "commit"
           /\ req[w].customer_oid \in CustomerOids
           /\ resp'[w].detail # "store failure")
             => (resp'[w].status = 409 /\ UNCHANGED tables)]_vars

\* C15: whatever the interleaving of registrations and deletions, the
\* committed users table never holds two rows with the same customer_oid.
C15_OneIdentityPerOid ==
    \A i, j \in 1..Len(users) :
        users[i].customer_oid = users[j].customer_oid => i = j

C15_Witness ==
    \E w, v \in Workers :
        /\ w # v
        /\ req[w].op = "register"
        /\ resp[w].detail = "IntegrityError"
        /\ req[v].op = "delete"
        /\ req[v].pc = "commit"
        /\ req[v].customer_oid = req[w].customer_oid
        /\ Cardinality(Own(users, req[w].customer_oid)) = 1

\* C16: a request holds one session from its start to its end, whatever the
\* response is; the session of every request is eventually closed, and no
\* request has ended with its session still open.
C16_SessionAlwaysReleased ==
    /\ [](\A w \in Workers :
            /\ req[w].pc \notin {"idle", "closed"} => req[w].session = "open"
            /\ req[w].pc = "closed" => req[w].session = "closed")
    /\ \A w \in Workers : (req[w].session = "open") ~> (req[w].session = "closed")

C16_Witness ==
    /\ req[1].session = "closed"
    /\ resp[1].status = 500
    /\ req[2].session = "closed"
    /\ resp[2].status = 409

-----------------------------------------------------------------------------
(* Validation, reads and the legacy identifier *)

\* the validator rejects the identifier of the request; a registration hands
\* it to the validator only when it is supplied and not empty
IdentifierRejected ==
    /\ req.op = "register" => (req.has_oid /\ req.customer_oid # <<>>)
    /\ ~validate_customer_oid(req.customer_oid).ok

\* C17 as stated: in every operation a request that ends in 400, for its
\* identifier or for its name, has issued no store query.
C17_InvalidArgumentBeforeStore ==
    (req.op \in {"portfolio", "exists", "delete", "register"} /\ resp.status = 400)
        => resp.queries = 0

\* C17 amended: a request that ends in 400 was either rejected for its
\* identifier, with no store query issued, or is a registration rejected for
\* its name after one query, the existence check; and a registration with a
\* short name whose identifier is not rejected and not registered does end so.
C17_OnlyIdentifierRejectedBeforeStore ==
    /\ (req.op \in {"portfolio", "exists", "delete", "register"} /\ resp.status = 400)
          => \/ IdentifierRejected /\ resp.queries = 0
             \/ /\ req.op = "register"
                /\ ~IdentifierRejected
                /\ Len(RefTrim(req.name)) < 2
                /\ resp.queries = 1
    /\ (req.op = "register" /\ ~IdentifierRejected /\ Len(RefTrim(req.name)) < 2
            /\ resp.status # 409)
          => (resp.status = 400 /\ resp.queries = 1)

C17_Witness ==
    /\ req.op = "register"
    /\ req.has_oid
    /\ WellFormed(req.customer_oid)
    /\ Len(RefTrim(req.name)) < 2
    /\ resp.status = 400
    /\ resp.queries = 1

\* the Identity table holds exactly one row for x, and its name is n
Identity(x, n) == \E i \in 1..Len(users) : Own(users, x) = {i} /\ users[i].name = n

\* the entries of a list_customers response for x
EntriesFor(body, x) == {i \in 1..Len(body) : body[i].customer_oid = x}

RegisteredNames == {RefTrim(n) : n \in ReqNames}

\* C18: from the successful registration of X, whose registered name is N,
\* until a successful deletion of X, check_customer_exists(X) answers exists =
\* true with name N and list_customers holds exactly one entry for X; for a
\* well-formed identifier without Identity, check_customer_exists answers 200
\* with exists = false and a null name, and list_customers holds no entry.
C18_RegisteredUntilDeleted ==
    [][\A x \in PathOids :
          /\ \A n \in RegisteredNames :
                /\ (RegisterStep /\ resp'.status = 200 /\ resp'.body.customer_oid = x
                        /\ RefTrim(req'.name) = n)
                      => (resp'.body.name = n /\ Identity(x, n)')
                /\ (Identity(x, n)
                        /\ ~(DeleteStep /\ req'.customer_oid = x /\ resp'.status = 200))
                      => Identity(x, n)'
                /\ (req = NoReq /\ req'.op = "exists" /\ req'.customer_oid = x
                        /\ Identity(x, n))
                      => /\ resp'.status = 200
                         /\ resp'.body.customer_oid = x
                         /\ resp'.body.exists
                         /\ resp'.body.name = n
                /\ (req = NoReq /\ req'.op = "list" /\ Identity(x, n))
                      => /\ resp'.status = 200
                         /\ \E i \in 1..Len(resp'.body) :
                               /\ EntriesFor(resp'.body, x) = {i}
                               /\ resp'.body[i].name = n
          /\ (req = NoReq /\ req'.op = "exists" /\ req'.customer_oid = x
                  /\ WellFormed(x) /\ Own(users, x) = {})
                => /\ resp'.status = 200
                   /\ ~resp'.body.exists
                   /\ resp'.body.name = Null
          /\ (req = NoReq /\ req'.op = "list" /\ Own(users, x) = {})
                => (resp'.status = 200 /\ EntriesFor(resp'.body, x) = {})]_vars

C18_Witness ==
    /\ req.op = "list"
    /\ resp.status = 200
    /\ Len(resp.body) = 2
    /\ resp.body[2].name = <<"B", "o">>
    /\ Identity(resp.body[2].customer_oid, <<"B", "o">>)

\* C19: "CUST001" is a valid identifier: the portfolio endpoint does not
\* reject it, and the validator hands it back unchanged.
C19_Cust001IsValid ==
    (req.op = "portfolio" /\ req.customer_oid = Cust001)
        => /\ resp.status \in {200, 404}
           /\ validate_customer_oid(Cust001) = Accept(Cust001)

\* C20: get_user_portfolio, check_customer_exists and list_customers leave
\* all seven tables as they were, whatever the input and the response.
C20_ReadsChangeNothing ==
    [][(req = NoReq /\ req'.op \in {"portfolio", "exists", "list"})
          => UNCHANGED tables]_vars

C20_Witness ==
    /\ req.op = "exists"
    /\ resp.status = 200
    /\ ~resp.body.exists
    /\ users # <<>>
    /\ DependentRows > 0

-----------------------------------------------------------------------------
(* Referential consistency and the frame of a deletion *)

\* C21: from a store where every dependent row refers to an existing
\* Identity, whatever registrations and deletions are served, interleaved,
\* successful or failing, every dependent row in the committed store still
\* refers to an existing Identity.
C21_NoOrphanedRows ==
    \A t \in DependentTableSet :
        \A i \in 1..Len(StoreNow[t]) : Own(users, StoreNow[t][i].customer_oid) # {}

C21_Witness ==
    \E w, v \in Workers :
        /\ w # v
        /\ req[w].op = "delete"
        /\ resp[w].status = 200
        /\ req[v].op = "delete"
        /\ resp[v].status = 500
        /\ resp[v].at = "derivative_transactions"
        /\ DependentRows = 0
        /\ users = <<>>

\* the rows of table t that belong to customer_oid, in table order
RowsOf(t, customer_oid) ==
    [k \in 1..Cardinality(Own(t, customer_oid)) |-> t[NthOwn(t, customer_oid, k)]]

\* C22: delete_customer(X) leaves, for every other customer Y, the Identity
\* of Y and the rows of Y in the five dependent tables as they were, and with
\* them the portfolio get_user_portfolio builds for Y.
C22_DeleteLeavesOthersAlone ==
    [][DeleteStep
          => \A y \in PathOids \ {req'.customer_oid} :
                /\ RowsOf(users', y) = RowsOf(users, y)
                /\ RowsOf(assets', y) = RowsOf(assets, y)
                /\ RowsOf(transactions', y) = RowsOf(transactions, y)
                /\ RowsOf(spending', y) = RowsOf(spending, y)
                /\ RowsOf(bank_accounts', y) = RowsOf(bank_accounts, y)
                /\ RowsOf(derivative_transactions', y) = RowsOf(derivative_transactions, y)
                /\ Own(users, y) # {}
                      => PortfolioBody(y, FirstByOid(users, y)[1])'
                            = PortfolioBody(y, FirstByOid(users, y)[1])]_vars

C22_Witness ==
    /\ req.op = "delete"
    /\ resp.status = 200
    /\ Len(users) = 1
    /\ users[1].customer_oid # req.customer_oid
    /\ RowsOf(bank_accounts, users[1].customer_oid) # <<>>
    /\ PortfolioResponse(users[1].customer_oid).body.portfolio_summary.total_cash_balance = 100

====
